---- MODULE Spec2Model ----
(***************************************************************************)
(* The task manager of os3 (src/os3/src/task.rs): the per-task status and  *)
(* statistics, the round-robin choice of the next task, the manager lock   *)
(* and the context switch, as a state machine of the single hart.          *)
(***************************************************************************)
EXTENDS Integers, FiniteSets, Sequences, TLC

VARIABLES
    num_app,        \* TaskManager.num_app
    current_task,   \* TaskManager.current_task
    tcbs,           \* TaskManager.tcbs: slot -> [status, cx]
    stats,          \* TaskManager.stats: slot -> TaskStat
    lock,           \* TASK_MANAGER's spin::Mutex: TRUE while held
    pc,             \* where the hart executes
    ksp,            \* the kernel stack the hart runs on
    next_task,      \* run_next_task / run_first_task: the chosen index
    cur_cx,         \* the context slot __switch saves into
    next_cx,        \* the context slot __switch loads from
    st_task,        \* start_task: current_task as read under the lock
    sys_arg,        \* record_syscall: the number it was called with
    app_of,         \* kernel stack -> the image start_task entered on it
    now,            \* the platform clock as last read by time::get_time
    timer,          \* the deadline given to sbi::set_timer
    decisions,      \* history: scheduling decisions completed by run_next_task
    waited,         \* history: slot -> decisions it has stayed Ready through
    window,         \* history: the slots whose schedule window is open
    invoked         \* history: image -> syscall -> calls it has made

vars == << num_app, current_task, tcbs, stats, lock, pc, ksp, next_task,
           cur_cx, next_cx, st_task, sys_arg, app_of, now, timer, decisions,
           waited, window, invoked >>

-----------------------------------------------------------------------------
(* Program constants and the bounds of the model.                          *)

MAX_TASK_NUM == 32
TICKS_PER_SEC == 100

\* syscall::MAX_SYSCALL_NUM, the length of TaskStat.syscall_times, scaled down.
MAX_SYSCALL_NUM == 2
\* time::CLOCK_FREQ, scaled so that one quantum is one unit of the clock.
CLOCK_FREQ == 100
\* The number of images the link script embeds is at most MaxApps.
MaxApps == 3
\* The clock is followed up to MaxTime.
MaxTime == 2
\* At most MaxSyscalls calls of record_syscall are followed.
MaxSyscalls == 2

Slots == 0 .. (MAX_TASK_NUM - 1)
Syscalls == 0 .. (MAX_SYSCALL_NUM - 1)

\* The boot stack, on which run_first_task runs, and the `unused` TaskContext
\* that lives on it; the stack pointer of a default TaskContext.
BootStack == MAX_TASK_NUM
Unused == MAX_TASK_NUM
NullSp == MAX_TASK_NUM + 1

\* No call of record_syscall is in progress.
NoSyscall == MAX_SYSCALL_NUM + 1

\* Option<usize>
None == {}
Some(t) == {t}
unwrap(o) == CHOOSE t \in o : TRUE

TaskStatus == {"UnInit", "Ready", "Running", "Exited"}

-----------------------------------------------------------------------------
(* TaskContext, TaskStat and TaskControlBlock.                              *)

\* TaskContext::default(): ra = 0, sp = 0.
DefaultCx == [ra |-> "null", sp |-> NullSp]

\* TaskStat::default()
DefaultStat ==
    [cpu_clocks |-> 0, first_scheduled |-> None, last_scheduled |-> None,
     syscall_times |-> [s \in Syscalls |-> 0]]

\* time::get_time(): the clock never runs backwards, so a read returns a
\* value at or after the last one read.
get_time(from) == from .. MaxTime

\* A begin that forgets the first-scheduled timestamp.
record_schedule_begin_last_only(stat, t) ==
    [stat EXCEPT !.last_scheduled = Some(t)]

\* A begin that moves the first-scheduled timestamp at every later begin.
record_schedule_begin_moves_first(stat, t) ==
    IF stat.last_scheduled = None
    THEN [stat EXCEPT !.first_scheduled = Some(t), !.last_scheduled = Some(t)]
    ELSE [stat EXCEPT !.first_scheduled = Some(t)]

record_schedule_begin(stat, t) ==
    IF stat.last_scheduled = None
    THEN [stat EXCEPT !.first_scheduled = Some(t), !.last_scheduled = Some(t)]
    ELSE [stat EXCEPT !.last_scheduled = Some(t)]

\* checked_sub(..).expect("time goes backward")
schedule_end_panics(stat, t) ==
    /\ stat.last_scheduled # None
    /\ t < unwrap(stat.last_scheduled)

\* An end that stores the last window instead of adding it.
record_schedule_end_assign(stat, t) ==
    IF stat.last_scheduled # None
    THEN [stat EXCEPT !.cpu_clocks = t - unwrap(stat.last_scheduled)]
    ELSE stat

\* An end that measures from the first scheduling.
record_schedule_end_from_first(stat, t) ==
    IF stat.last_scheduled # None
    THEN [stat EXCEPT !.cpu_clocks = @ + (t - unwrap(stat.first_scheduled))]
    ELSE stat

record_schedule_end(stat, t) ==
    IF stat.last_scheduled # None
    THEN [stat EXCEPT !.cpu_clocks = @ + (t - unwrap(stat.last_scheduled))]
    ELSE stat

\* A counter that is set to one instead of incremented.
stat_record_syscall_set(stat, syscall) ==
    [stat EXCEPT !.syscall_times[syscall] = 1]

\* self.syscall_times[syscall] += 1 on a u32: MaxSyscalls keeps every counter
\* far below 2^32, where the addition would overflow. An index out of range
\* panics: the caller below checks it.
stat_record_syscall(stat, syscall) ==
    [stat EXCEPT !.syscall_times[syscall] = @ + 1]

\* An index that is never checked.
stat_record_syscall_unchecked(stat, syscall) == FALSE

\* The index check of syscall_times[syscall]: out of range, the kernel panics.
stat_record_syscall_panics(stat, syscall) ==
    syscall \notin DOMAIN stat.syscall_times

\* real_time(&self) at clock value t
real_time(stat, t) ==
    IF stat.first_scheduled # None THEN t - unwrap(stat.first_scheduled) ELSE 0

-----------------------------------------------------------------------------
(* TaskManager::find_next_task and the halves of move_to_next_task.         *)

\* The for loop of find_next_task: `left` iterations remain, idx is examined.
RECURSIVE scan_ready(_, _, _, _)
scan_ready(tc, n, idx, left) ==
    IF left = 0 THEN None
    ELSE IF tc[idx].status = "Ready" THEN Some(idx)
    ELSE scan_ready(tc, n, (idx + 1) % n, left - 1)

\* A scan that starts at slot 0 instead of just after the current slot.
find_next_task_from_zero(tc, cur, n) ==
    LET found == scan_ready(tc, n, 0, n) IN
    IF found # None THEN found
    ELSE IF tc[cur].status = "Running" THEN Some(cur)
    ELSE None

\* A fallback that keeps the current slot whatever its status.
find_next_task_keep_any(tc, cur, n) ==
    LET found == scan_ready(tc, n, (cur + 1) % n, n) IN
    IF found # None THEN found ELSE Some(cur)

\* No fallback to the task that is still Running.
find_next_task_no_fallback(tc, cur, n) ==
    scan_ready(tc, n, (cur + 1) % n, n)

find_next_task(tc, cur, n) ==
    LET found == scan_ready(tc, n, (cur + 1) % n, n) IN
    IF found # None THEN found
    ELSE IF tc[cur].status = "Running" THEN Some(cur)
    ELSE None

\* move_to_next_task, lines 180-182: the outgoing task goes back to Ready
\* only if it is still Running.
\* The outgoing task keeps its status.
demote_never(tc, cur) == tc

\* The outgoing task goes back to Ready whatever its status.
demote_always(tc, cur) == [tc EXCEPT ![cur].status = "Ready"]

demote_current(tc, cur) ==
    IF tc[cur].status = "Running" THEN [tc EXCEPT ![cur].status = "Ready"] ELSE tc

\* move_to_next_task, line 183
end_current_window(st, cur, t) ==
    [st EXCEPT ![cur] = record_schedule_end(@, t)]

\* The assertion left out.
next_is_ready_unchecked(tc, next) == TRUE

\* move_to_next_task, line 187: assert!(next_tcb.status == TaskStatus::Ready)
next_is_ready(tc, next) == tc[next].status = "Ready"

\* move_to_next_task, line 188
promote_next(tc, next) == [tc EXCEPT ![next].status = "Running"]

\* The window is begun on the slot that is still the current one.
begin_window_of_current(st, next, t) ==
    [st EXCEPT ![current_task] = record_schedule_begin(@, t)]

\* move_to_next_task, line 189
begin_next_window(st, next, t) ==
    [st EXCEPT ![next] = record_schedule_begin(@, t)]

\* A guard that is kept until the caller returns.
drop_forgotten(l) == l

\* drop(task_mgr): the guard is released.
drop(l) == FALSE

\* set_next_trigger: sbi::set_timer(current_time + delta)
next_trigger(t) == Some(t + (CLOCK_FREQ \div TICKS_PER_SEC))

\* A switch that saves the caller into the context it is about to load.
switch_save_into_next(tc, from, ra, sp) ==
    IF next_cx = Unused THEN tc ELSE [tc EXCEPT ![next_cx].cx = [ra |-> ra, sp |-> sp]]

\* __switch(from, to), the saving half: ra and sp of the caller go into the
\* slot `from` (the throwaway context of run_first_task is not kept).
switch_save(tc, from, ra, sp) ==
    IF from = Unused THEN tc ELSE [tc EXCEPT ![from].cx = [ra |-> ra, sp |-> sp]]

-----------------------------------------------------------------------------
(* The state after TaskManager::new(): the first num_app slots are loaded.  *)

mgr == << num_app, current_task, tcbs, stats >>
locals == << next_task, cur_cx, next_cx, st_task, sys_arg >>
clock == << now, timer >>
hist == << decisions, waited, window, invoked >>

\* A loader that loads one slot more than there are images.
NewTcb_one_more(i, n) ==
    IF i <= n
    THEN [status |-> "Ready", cx |-> [ra |-> "start_task", sp |-> i]]
    ELSE [status |-> "UnInit", cx |-> DefaultCx]

\* new(), lines 135-144 and load_task, line 171
NewTcb(i, n) ==
    IF i < n
    THEN [status |-> "Ready", cx |-> [ra |-> "start_task", sp |-> i]]
    ELSE [status |-> "UnInit", cx |-> DefaultCx]

NoHistory ==
    /\ decisions = 0
    /\ waited = [i \in Slots |-> 0]
    /\ window = {}
    /\ invoked = [i \in Slots |-> [s \in Syscalls |-> 0]]

Init ==
    /\ num_app \in 0 .. MaxApps
    /\ current_task = 0
    /\ tcbs = [i \in Slots |-> NewTcb(i, num_app)]
    /\ stats = [i \in Slots |-> DefaultStat]
    /\ lock = FALSE
    /\ pc = "boot"
    /\ ksp = BootStack
    /\ next_task = Unused
    /\ cur_cx = Unused
    /\ next_cx = Unused
    /\ st_task = Unused
    /\ sys_arg = NoSyscall
    /\ app_of = [k \in Slots |-> Unused]
    /\ now = 0
    /\ timer = None
    /\ NoHistory

-----------------------------------------------------------------------------
(* Steps shared by the handlers.                                            *)

\* TASK_MANAGER.lock() on a spin::Mutex that is held: the hart spins forever.
Spin ==
    /\ pc' = "deadlock"
    /\ UNCHANGED << mgr, lock, ksp, locals, app_of, clock, hist >>

\* The slots on which move_to_next_task calls record_schedule_end (line 183)
\* and record_schedule_begin (line 189): those a call changes in a table
\* where every slot has been scheduled once.
ProbeStats ==
    [i \in Slots |-> [DefaultStat EXCEPT !.first_scheduled = Some(0),
                                         !.last_scheduled = Some(0)]]
EndedSlots(cur) ==
    {i \in Slots : end_current_window(ProbeStats, cur, 1)[i] # ProbeStats[i]}
BegunSlots(next) ==
    {i \in Slots : begin_next_window(ProbeStats, next, 1)[i] # ProbeStats[i]}

\* A panic (a failed assert!, expect or index check): the kernel stops.
Panic(tc, st, t) ==
    /\ pc' = "panic"
    /\ tcbs' = tc
    /\ stats' = st
    /\ now' = t
    /\ window' = IF st = stats THEN window ELSE window \ EndedSlots(current_task)
    /\ UNCHANGED << num_app, current_task, lock, ksp, locals, app_of, timer,
                    decisions, waited, invoked >>

\* finish(): sbi::shutdown() never returns.
finish ==
    /\ pc' = "shutdown"
    /\ lock' = TRUE
    /\ UNCHANGED << mgr, ksp, locals, app_of, clock, hist >>

\* The decisions a slot has stayed Ready through, after a decision took the
\* manager from tc to tc2.
Waited(tc, tc2) ==
    [i \in Slots |->
        IF tc[i].status = "Ready" /\ tc2[i].status = "Ready"
        THEN waited[i] + 1 ELSE 0]

\* move_to_next_task(next), called with the lock held. `from` is what the
\* caller keeps of the first context pointer; a decision of run_next_task is
\* counted in the history.
MoveToNextTask(next, from, donepc, decision) ==
    \E t1 \in (IF stats[current_task].last_scheduled = None
               THEN {now} ELSE get_time(now)) :
        LET tc1 == demote_current(tcbs, current_task)
            st1 == end_current_window(stats, current_task, t1)
        IN  IF schedule_end_panics(stats[current_task], t1)
            THEN Panic(tc1, stats, t1)
            ELSE IF ~ next_is_ready(tc1, next)
            THEN Panic(tc1, st1, t1)
            ELSE \E t2 \in get_time(t1) :
                /\ tcbs' = promote_next(tc1, next)
                /\ stats' = begin_next_window(st1, next, t2)
                /\ current_task' = next
                /\ cur_cx' = from
                /\ next_cx' = next
                /\ now' = t2
                /\ pc' = donepc
                /\ decisions' = IF decision THEN decisions + 1 ELSE decisions
                /\ waited' = IF decision THEN Waited(tcbs, tcbs') ELSE waited
                /\ window' = (window \ EndedSlots(current_task))
                                \cup BegunSlots(next)
                /\ UNCHANGED << num_app, lock, ksp, next_task, st_task, sys_arg,
                                app_of, timer, invoked >>

\* drop(task_mgr)
Drop(nextpc) ==
    /\ lock' = drop(lock)
    /\ pc' = nextpc
    /\ UNCHANGED << mgr, ksp, locals, app_of, clock, hist >>

\* set_next_trigger()
SetNextTrigger(nextpc) ==
    \E t \in get_time(now) :
        /\ now' = t
        /\ timer' = next_trigger(t)
        /\ pc' = nextpc
        /\ UNCHANGED << mgr, lock, ksp, locals, app_of, hist >>

\* __switch(cur_cx, next_cx): the caller's ra and sp are saved, those of the
\* next context loaded; the hart goes on at the loaded ra on the loaded stack.
Switch ==
    LET tc1 == switch_save(tcbs, cur_cx, "rnt_ret", ksp)
        to == tc1[next_cx].cx
    IN  /\ tcbs' = tc1
        /\ pc' = IF to.ra = "null" THEN "wild" ELSE to.ra
        /\ ksp' = to.sp
        /\ next_task' = Unused
        /\ cur_cx' = Unused
        /\ next_cx' = Unused
        /\ UNCHANGED << num_app, current_task, stats, lock, st_task, sys_arg,
                        app_of, clock, hist >>

-----------------------------------------------------------------------------
(* run_first_task, lines 272-285                                            *)

RunFirstTask_Pick ==
    /\ pc = "boot"
    /\ IF lock THEN Spin
       ELSE IF num_app > 0
       THEN /\ lock' = TRUE
            /\ next_task' = 0
            /\ pc' = "rft_move"
            /\ UNCHANGED << mgr, ksp, cur_cx, next_cx, st_task, sys_arg, app_of,
                            clock, hist >>
       ELSE finish

RunFirstTask_Move ==
    /\ pc = "rft_move"
    /\ MoveToNextTask(next_task, Unused, "rft_drop", FALSE)

RunFirstTask_Drop ==
    /\ pc = "rft_drop"
    /\ Drop("rft_trigger")

RunFirstTask_Trigger ==
    /\ pc = "rft_trigger"
    /\ SetNextTrigger("rft_switch")

RunFirstTask_Switch ==
    /\ pc = "rft_switch"
    /\ Switch

-----------------------------------------------------------------------------
(* start_task, lines 243-259                                                *)

StartTask_Read ==
    /\ pc = "start_task"
    /\ IF lock THEN Spin
       ELSE /\ lock' = TRUE
            /\ st_task' = current_task
            /\ pc' = "st_drop"
            /\ UNCHANGED << mgr, ksp, next_task, cur_cx, next_cx, sys_arg, app_of,
                            clock, hist >>

StartTask_Drop ==
    /\ pc = "st_drop"
    /\ Drop("st_restore")

\* app_init_context(get_task_base(current_task), USER_STACK[current_task]) and
\* __restore: the image of the index read is entered on this kernel stack.
StartTask_Restore ==
    /\ pc = "st_restore"
    /\ app_of' = [app_of EXCEPT ![ksp] = st_task]
    /\ st_task' = Unused
    /\ pc' = "user"
    /\ UNCHANGED << mgr, lock, ksp, next_task, cur_cx, next_cx, sys_arg, clock,
                    hist >>

-----------------------------------------------------------------------------
(* The traps of the running task: a system call (record_syscall), an exit   *)
(* or a fault (exit_and_run_next) and the timer interrupt (run_next_task).  *)

\* The history of calls made by an image, one more of `syscall`.
CountCall(made, syscall) ==
    IF syscall \in Syscalls THEN [made EXCEPT ![syscall] = @ + 1] ELSE made

SyscallsMade ==
    LET RECURSIVE Sum(_)
        Sum(S) == IF S = {} THEN 0
                  ELSE LET x == CHOOSE y \in S : TRUE
                       IN invoked[x[1]][x[2]] + Sum(S \ {x})
    IN Sum((0 .. (MaxApps - 1)) \X Syscalls)

\* record_syscall(syscall), lines 317-320
RecordSyscall(syscall) ==
    /\ pc = "user"
    /\ SyscallsMade < MaxSyscalls
    /\ IF lock THEN Spin
       ELSE IF ~ stat_record_syscall_panics(stats[current_task], syscall)
       THEN /\ stats' = [stats EXCEPT ![current_task] = stat_record_syscall(@, syscall)]
            /\ invoked' = [invoked EXCEPT ![app_of[ksp]] = CountCall(@, syscall)]
            /\ sys_arg' = syscall
            /\ lock' = TRUE
            /\ pc' = "rs_ret"
            /\ UNCHANGED << num_app, current_task, tcbs, ksp, next_task, cur_cx,
                            next_cx, st_task, app_of, clock, decisions, waited,
                            window >>
       ELSE /\ pc' = "panic"
            /\ sys_arg' = syscall
            /\ lock' = TRUE
            /\ UNCHANGED << mgr, ksp, next_task, cur_cx, next_cx, st_task, app_of,
                            clock, hist >>

\* record_syscall, line 321: the guard goes out of scope.
RecordSyscall_Return ==
    /\ pc = "rs_ret"
    /\ lock' = drop(lock)
    /\ sys_arg' = NoSyscall
    /\ pc' = "user"
    /\ UNCHANGED << mgr, ksp, next_task, cur_cx, next_cx, st_task, app_of, clock,
                    hist >>

\* exit_and_run_next, lines 262-267
ExitAndRunNext_Mark ==
    /\ pc = "user"
    /\ IF lock THEN Spin
       ELSE /\ tcbs' = [tcbs EXCEPT ![current_task].status = "Exited"]
            /\ lock' = TRUE
            /\ pc' = "ex_drop"
            /\ UNCHANGED << num_app, current_task, stats, ksp, locals, app_of,
                            clock, hist >>

\* exit_and_run_next, lines 268-269
ExitAndRunNext_Drop ==
    /\ pc = "ex_drop"
    /\ Drop("run_next_task")

\* The timer interrupt of the trap handler: the deadline has passed; the
\* handler programs the next one and calls run_next_task.
TimerInterrupt ==
    /\ pc = "user"
    /\ timer # None
    /\ \E t \in get_time(IF unwrap(timer) > now THEN unwrap(timer) ELSE now) :
        /\ now' = t
        /\ timer' = next_trigger(t)
    /\ pc' = "run_next_task"
    /\ UNCHANGED << mgr, lock, ksp, locals, app_of, hist >>

-----------------------------------------------------------------------------
(* run_next_task, lines 287-297                                             *)

\* lines 288-289: find_next_task_or_exit under the lock
RunNextTask_Find ==
    /\ pc = "run_next_task"
    /\ IF lock THEN Spin
       ELSE IF num_app = 0
       THEN /\ pc' = "panic"
            /\ lock' = TRUE
            /\ UNCHANGED << mgr, ksp, locals, app_of, clock, hist >>
       ELSE LET found == find_next_task(tcbs, current_task, num_app) IN
            IF found = None THEN finish
            ELSE /\ next_task' = unwrap(found)
                 /\ lock' = TRUE
                 /\ pc' = "rnt_move"
                 /\ UNCHANGED << mgr, ksp, cur_cx, next_cx, st_task, sys_arg,
                                 app_of, clock, hist >>

RunNextTask_Move ==
    /\ pc = "rnt_move"
    /\ MoveToNextTask(next_task, current_task, "rnt_drop", TRUE)

RunNextTask_Drop ==
    /\ pc = "rnt_drop"
    /\ Drop("rnt_trigger")

RunNextTask_Trigger ==
    /\ pc = "rnt_trigger"
    /\ SetNextTrigger("rnt_switch")

RunNextTask_Switch ==
    /\ pc = "rnt_switch"
    /\ Switch

\* __switch returns into a task switched out earlier: run_next_task returns
\* to the trap handler, which restores the task's user context.
RunNextTask_Return ==
    /\ pc = "rnt_ret"
    /\ pc' = "user"
    /\ UNCHANGED << mgr, lock, ksp, locals, app_of, clock, hist >>

-----------------------------------------------------------------------------

Next ==
    \/ RunFirstTask_Pick
    \/ RunFirstTask_Move
    \/ RunFirstTask_Drop
    \/ RunFirstTask_Trigger
    \/ RunFirstTask_Switch
    \/ StartTask_Read
    \/ StartTask_Drop
    \/ StartTask_Restore
    \/ \E syscall \in 0 .. MAX_SYSCALL_NUM : RecordSyscall(syscall)
    \/ RecordSyscall_Return
    \/ ExitAndRunNext_Mark
    \/ ExitAndRunNext_Drop
    \/ TimerInterrupt
    \/ RunNextTask_Find
    \/ RunNextTask_Move
    \/ RunNextTask_Drop
    \/ RunNextTask_Trigger
    \/ RunNextTask_Switch
    \/ RunNextTask_Return

Spec == Init /\ [][Next]_vars

-----------------------------------------------------------------------------
(* Properties of the scheduler.                                             *)

Loaded == 0 .. (num_app - 1)
RunningSlots == {i \in Slots : tcbs[i].status = "Running"}
NoneExited == \A i \in Loaded : tcbs[i].status # "Exited"
AllExited == num_app >= 1 /\ \A i \in Loaded : tcbs[i].status = "Exited"

\* C1: in every reachable state at most one task slot has status Running.
SingleRunning == Cardinality(RunningSlots) <= 1

\* C1 witness: a task runs after an earlier one exited and another was
\* preempted.
SingleRunning_Witness ==
    /\ pc = "user"
    /\ Cardinality(RunningSlots) = 1
    /\ \E i, j \in Loaded : tcbs[i].status = "Exited" /\ tcbs[j].status = "Ready"
    /\ decisions >= 2

\* C2: with N tasks loaded and none ever exited, the task made current by the
\* k-th timer-tick decision after run_first_task started task 0 is k mod N,
\* so from task i the next k decisions give i+1, ..., i+k mod N.
RoundRobin ==
    (num_app >= 1 /\ NoneExited) => current_task = decisions % num_app

\* C2 witness: two tasks, two ticks: the schedule has wrapped around to 0.
RoundRobin_Witness ==
    /\ num_app = 2
    /\ NoneExited
    /\ decisions = 2
    /\ current_task = 0
    /\ pc = "user"

\* C3: once a slot is Exited no step changes its status, no scheduling
\* decision selects it and no step makes it the current task again.
ExitedIsTerminal ==
    [][\A i \in Slots :
        tcbs[i].status = "Exited" =>
            /\ tcbs'[i].status = "Exited"
            /\ next_task' # i
            /\ (current_task' = i => current_task = i)]_vars

\* C3 witness: a task exited, it was the outgoing task of a decision, and
\* another task runs.
ExitedIsTerminal_Witness ==
    /\ pc = "user"
    /\ \E i \in Loaded :
        /\ tcbs[i].status = "Exited"
        /\ current_task # i
        /\ tcbs[current_task].status = "Running"
    /\ decisions >= 2

\* C4: a scheduling decision made when all loaded tasks are Exited ends in
\* finish(): no index is selected, no task is made Running, and no step
\* (so no context switch) follows the shutdown.
ShutdownWhenAllExited ==
    /\ [][(pc = "run_next_task" /\ AllExited) =>
            /\ pc' = "shutdown"
            /\ next_task' = Unused
            /\ tcbs' = tcbs]_vars
    /\ [][pc # "shutdown"]_vars
    /\ [](pc = "shutdown" => RunningSlots = {})

\* C4 witness: three tasks ran, all exited, and the kernel shut down.
ShutdownWhenAllExited_Witness ==
    /\ pc = "shutdown"
    /\ num_app = 3
    /\ AllExited
    /\ decisions >= 2

\* C6: whenever __switch is about to be invoked (in run_first_task and in
\* run_next_task) the manager lock is released, and no lock acquisition ever
\* finds the lock held: the hart never spins on it.
LockDiscipline ==
    /\ pc \in {"rft_switch", "rnt_switch"} => ~ lock
    /\ pc \in {"start_task", "rnt_ret", "user", "run_next_task"} => ~ lock
    /\ pc # "deadlock"

\* C6 witness: a task resumed by the __switch of run_next_task has taken the
\* lock again in record_syscall.
LockDiscipline_Witness ==
    /\ pc = "rs_ret"
    /\ lock
    /\ decisions >= 1
    /\ tcbs[current_task].cx.ra = "rnt_ret"

\* C7: each record_syscall(S) with S tracked adds exactly one to the counter
\* for S of the task current at the call and changes no other counter, no
\* status and not current_task; so every counter equals the number of calls
\* of that syscall the task itself has made.
SyscallCounting ==
    /\ [][(pc = "user" /\ pc' = "rs_ret") =>
            /\ \E s \in Syscalls :
                stats' = [stats EXCEPT ![current_task].syscall_times[s] = @ + 1]
            /\ tcbs' = tcbs
            /\ current_task' = current_task]_vars
    /\ [](\A i \in Slots : stats[i].syscall_times = invoked[i])

\* C7 witness: task 1 made the same call twice, with the exit of task 0 and
\* a timer tick in between the scheduling of the two.
SyscallCounting_Witness ==
    /\ stats[1].syscall_times[1] = 2
    /\ stats[1].syscall_times[0] = 0
    /\ tcbs[0].status = "Exited"
    /\ num_app = 3
    /\ current_task = 2

\* C8: a Ready task is made Running by one of the next N-1 scheduling
\* decisions (timer tick or exit): it never stays Ready through N-1 of them.
NoStarvation ==
    \A i \in Loaded :
        tcbs[i].status = "Ready" => (waited[i] = 0 \/ waited[i] < num_app - 1)

\* C8 witness: with three tasks, task 2 stayed Ready through one decision
\* and the second one has made it Running.
NoStarvation_Witness ==
    /\ num_app = 3
    /\ decisions = 2
    /\ tcbs[2].status = "Running"
    /\ tcbs[0].status = "Ready"
    /\ tcbs[1].status = "Ready"
    /\ waited[0] = 1

\* C9: run_first_task with N >= 1 makes task 0 Running and current, opens its
\* stats window at the time read (first = last, no cpu time yet), leaves the
\* other loaded tasks Ready, programs the timer after releasing the lock and
\* only then switches into task 0 (start_task on task 0's kernel stack); with
\* N = 0 it shuts down without making any task Running.
FirstTaskStarted ==
    /\ tcbs[0].status = "Running"
    /\ current_task = 0
    /\ stats[0].first_scheduled # None
    /\ stats[0].last_scheduled = stats[0].first_scheduled
    /\ unwrap(stats[0].first_scheduled) <= now
    /\ stats[0].cpu_clocks = 0
    /\ \A i \in Loaded \ {0} : tcbs[i].status = "Ready" /\ stats[i] = DefaultStat

RunFirstTask ==
    /\ (num_app >= 1 /\ pc \in {"rft_drop", "rft_trigger", "rft_switch"})
            => FirstTaskStarted
    /\ (num_app >= 1 /\ pc = "rft_drop")
            => (stats[0].first_scheduled = Some(now) /\ timer = None /\ lock)
    /\ (num_app >= 1 /\ pc = "rft_trigger") => (timer = None /\ ~ lock)
    /\ (num_app >= 1 /\ pc = "rft_switch")
            => (timer # None /\ ~ lock /\ ksp = BootStack /\ next_cx = 0)
    /\ (num_app >= 1 /\ decisions = 0 /\ pc = "start_task")
            => (FirstTaskStarted /\ timer # None /\ ksp = 0)
    /\ num_app = 0 => (pc \in {"boot", "shutdown"} /\ RunningSlots = {})

\* C9 witness: with three images, control has reached start_task of task 0
\* with the timer programmed and the window opened at clock value 1.
RunFirstTask_Witness ==
    /\ num_app = 3
    /\ pc = "start_task"
    /\ decisions = 0
    /\ ksp = 0
    /\ stats[0].first_scheduled = Some(1)
    /\ timer # None

-----------------------------------------------------------------------------
(* find_next_task and move_to_next_task are public methods: they are also   *)
(* applied to every manager state of up to MaxApps loaded tasks.            *)

LoadedStatus == {"Ready", "Running", "Exited"}

\* A manager with n loaded slots of statuses f, as run_next_task finds it
\* when it is called on the kernel stack of the current task.
AnyManager ==
    /\ num_app \in 1 .. MaxApps
    /\ current_task \in 0 .. (num_app - 1)
    /\ \E f \in [0 .. (MaxApps - 1) -> LoadedStatus] :
        tcbs = [i \in Slots |->
                  IF i < num_app
                  THEN [status |-> f[i], cx |-> [ra |-> "start_task", sp |-> i]]
                  ELSE NewTcb(i, num_app)]
    /\ stats = [i \in Slots |-> DefaultStat]
    /\ ksp = current_task
    /\ cur_cx = Unused
    /\ next_cx = Unused
    /\ st_task = Unused
    /\ sys_arg = NoSyscall
    /\ app_of = [k \in Slots |-> Unused]
    /\ now = 0
    /\ timer = None
    /\ NoHistory

InitFind ==
    /\ AnyManager
    /\ pc = "run_next_task"
    /\ lock = FALSE
    /\ next_task = Unused

SpecFind == InitFind /\ [][RunNextTask_Find]_vars

\* move_to_next_task is entered with any index, a slot beyond the loaded
\* ones included.
InitMove ==
    /\ AnyManager
    /\ pc = "rnt_move"
    /\ lock = TRUE
    /\ next_task \in 0 .. MaxApps

SpecMove == InitMove /\ [][RunNextTask_Move]_vars

ReadyAfter(d) == tcbs[(current_task + d) % num_app].status = "Ready"

NearestReady ==
    LET d == CHOOSE d \in 1 .. num_app :
                ReadyAfter(d) /\ \A e \in 1 .. (d - 1) : ~ ReadyAfter(e)
    IN (current_task + d) % num_app

\* C5: find_next_task returns the Ready slot at the smallest cyclic distance
\* 1..N after current_task; with no Ready slot it returns current_task if
\* that task is Running (a single task keeps running) and none otherwise,
\* which run_next_task turns into finish(). With three tasks and task 1
\* Exited, the choice from 0 is 2 and the choice from 2 is 0.
FindNextTask ==
    /\ [][(pc = "run_next_task" /\ ~ lock) =>
            IF \E d \in 1 .. num_app : ReadyAfter(d)
            THEN pc' = "rnt_move" /\ next_task' = NearestReady
            ELSE IF tcbs[current_task].status = "Running"
            THEN pc' = "rnt_move" /\ next_task' = current_task
            ELSE pc' = "shutdown" /\ next_task' = Unused]_vars
    /\ [][(/\ pc = "run_next_task" /\ ~ lock
           /\ num_app = 3
           /\ tcbs[1].status = "Exited"
           /\ current_task \in {0, 2}
           /\ tcbs[current_task].status = "Running"
           /\ tcbs[2 - current_task].status = "Ready") =>
            next_task' = 2 - current_task]_vars
    /\ [][(pc = "run_next_task" /\ ~ lock /\ num_app = 1
           /\ tcbs[0].status = "Running") => next_task' = 0]_vars

\* C5 witness: three tasks, task 1 Exited, task 0 current: 2 was chosen.
FindNextTask_Witness ==
    /\ pc = "rnt_move"
    /\ num_app = 3
    /\ current_task = 0
    /\ tcbs[0].status = "Running"
    /\ tcbs[1].status = "Exited"
    /\ tcbs[2].status = "Ready"
    /\ next_task = 2

\* The slot `next` is not Ready when line 187 is reached: it is not Ready
\* now, and it is not the Running current task, which line 181 makes Ready.
NotReadyAtPromotion ==
    /\ tcbs[next_task].status # "Ready"
    /\ ~ (next_task = current_task /\ tcbs[next_task].status = "Running")

\* C10: move_to_next_task called with an index whose slot is not Ready at the
\* point of promotion panics: the slot's status is not changed, current_task
\* is not updated and no pair of contexts is returned.
MoveToNonReady ==
    [][(pc = "rnt_move" /\ NotReadyAtPromotion) =>
            /\ pc' = "panic"
            /\ tcbs'[next_task].status = tcbs[next_task].status
            /\ current_task' = current_task
            /\ cur_cx' = cur_cx
            /\ next_cx' = next_cx]_vars

\* C10 witness: the call with an Exited slot other than the current one has
\* panicked.
MoveToNonReady_Witness ==
    /\ pc = "panic"
    /\ next_task # current_task
    /\ tcbs[next_task].status = "Exited"
    /\ tcbs[current_task].status = "Ready"
    /\ next_cx = Unused

-----------------------------------------------------------------------------
(* Properties of the statistics and of the task lifecycle.                  *)

\* C11: no step decreases a task's cpu_clocks, and a step changes it only
\* for the outgoing task of move_to_next_task, by the length of the window
\* that record_schedule_end closes; record_syscall, the exit marking, the
\* begin of a window and the scheduling of other tasks leave it unchanged.
CpuClocksMonotone ==
    [][\A i \in Slots :
        /\ stats'[i].cpu_clocks >= stats[i].cpu_clocks
        /\ stats'[i].cpu_clocks # stats[i].cpu_clocks =>
            /\ pc = "rnt_move"
            /\ i = current_task
            /\ i \in window
            /\ stats[i].last_scheduled # None
            /\ stats'[i].cpu_clocks - stats[i].cpu_clocks
                    <= now' - unwrap(stats[i].last_scheduled)]_vars

\* C11 witness: two tasks have each been charged a closed window.
CpuClocksMonotone_Witness ==
    /\ stats[0].cpu_clocks = 1
    /\ stats[1].cpu_clocks = 1
    /\ pc = "user"

\* C12: at most one schedule window is open, and once run_first_task has
\* started task 0 the open window is that of the current task, which is the
\* single Running task or the current task that has just been marked Exited.
WindowsExclusive ==
    /\ Cardinality(window) <= 1
    /\ \A i \in window :
        /\ i = current_task
        /\ tcbs[i].status \in {"Running", "Exited"}
    /\ RunningSlots \subseteq window

\* C12 witness: task 1 has the open window after task 0's was closed.
WindowsExclusive_Witness ==
    /\ window = {1}
    /\ tcbs[1].status = "Running"
    /\ stats[0].last_scheduled # None
    /\ tcbs[0].status = "Ready"
    /\ pc = "user"

\* C13: a task's two timestamps are set together, at its first scheduling,
\* and from then on first_scheduled <= last_scheduled.
FirstBeforeLast ==
    \A i \in Slots :
        /\ stats[i].first_scheduled = None <=> stats[i].last_scheduled = None
        /\ stats[i].first_scheduled # None =>
            unwrap(stats[i].first_scheduled) <= unwrap(stats[i].last_scheduled)

\* C13 witness: task 0 was first scheduled at 0 and scheduled again at 2.
FirstBeforeLast_Witness ==
    /\ stats[0].first_scheduled = Some(0)
    /\ stats[0].last_scheduled = Some(2)
    /\ stats[1].first_scheduled # None

\* C14: a slot's status changes only Ready -> Running (the task picked by
\* move_to_next_task), Running -> Ready (the outgoing current task) and
\* Running -> Exited (the current task, in exit_and_run_next); the slots
\* loaded at initialization are exactly those that are not UnInit, so no
\* slot returns to UnInit, none is loaded later, and a Ready slot is never
\* set Exited.
Lifecycle ==
    /\ [][\A i \in Slots : tcbs'[i].status # tcbs[i].status =>
            \/ /\ tcbs[i].status = "Ready"
               /\ tcbs'[i].status = "Running"
               /\ pc \in {"rft_move", "rnt_move"}
               /\ i = next_task
            \/ /\ tcbs[i].status = "Running"
               /\ tcbs'[i].status = "Ready"
               /\ pc = "rnt_move"
               /\ i = current_task
            \/ /\ tcbs[i].status = "Running"
               /\ tcbs'[i].status = "Exited"
               /\ pc = "user"
               /\ i = current_task]_vars
    /\ [](\A i \in Slots : tcbs[i].status = "UnInit" <=> i \notin Loaded)
    /\ [](pc = "boot" => \A i \in Loaded : tcbs[i].status = "Ready")

\* C14 witness: of three tasks one has exited, one runs and one, scheduled
\* before, is Ready again.
Lifecycle_Witness ==
    /\ tcbs[0].status = "Exited"
    /\ tcbs[1].status = "Running"
    /\ tcbs[2].status = "Ready"
    /\ stats[2].first_scheduled # None

\* The slots from num_app on are as TaskManager::new() left them and no
\* index held by the scheduler names one of them.
UnloadedUntouched ==
    /\ \A i \in Slots \ Loaded :
        /\ tcbs[i].status = "UnInit"
        /\ tcbs[i].cx = DefaultCx
        /\ stats[i] = DefaultStat
        /\ i \notin window
    /\ next_task \in Loaded \cup {Unused}
    /\ next_cx \in Loaded \cup {Unused}
    /\ cur_cx \in Loaded \cup {Unused}
    /\ st_task \in Loaded \cup {Unused}
    /\ pc = "boot" => \A i \in Loaded : tcbs[i].status = "Ready"

\* C15 as stated: slots 0..N-1 are Ready after initialization, the slots
\* from N on stay UnInit with untouched stats and are never selected, and
\* current_task < N in every reachable state.
OnlyLoadedSlots_AsStated ==
    /\ UnloadedUntouched
    /\ current_task < num_app

\* C15 amended: as stated, with current_task < N whenever N >= 1; with no
\* image current_task stays 0 and the kernel shuts down without a task.
OnlyLoadedSlots ==
    /\ UnloadedUntouched
    /\ num_app >= 1 => current_task < num_app
    /\ num_app = 0 => (current_task = 0 /\ pc \in {"boot", "shutdown"})

\* C15 witness: with two images both have been scheduled, task 1 is current
\* and slot 2 is still as initialized.
OnlyLoadedSlots_Witness ==
    /\ num_app = 2
    /\ current_task = 1
    /\ stats[0].first_scheduled # None
    /\ tcbs[2].status = "UnInit"
    /\ pc = "user"

\* C16: record_syscall with a number outside the tracked range panics and
\* changes no counter of any task; a call that returns had a tracked number.
UntrackedSyscallAborts ==
    /\ [][(pc = "user" /\ sys_arg' \notin Syscalls \cup {NoSyscall}) =>
            /\ pc' = "panic"
            /\ stats' = stats]_vars
    /\ [](pc = "rs_ret" => sys_arg \in Syscalls)
    /\ [][pc # "panic"]_vars

\* C16 witness: after a counted call, a call with number MAX_SYSCALL_NUM has
\* stopped the kernel and the counters are as they were.
UntrackedSyscallAborts_Witness ==
    /\ pc = "panic"
    /\ sys_arg = MAX_SYSCALL_NUM
    /\ stats[current_task].syscall_times[0] = 1
    /\ invoked[current_task][0] = 1

\* C18: whenever move_to_next_task is entered, from run_first_task with
\* index 0 or from run_next_task with the index found, the next slot is
\* Ready or is the Running current task that the demotion makes Ready: the
\* assertion holds and the function returns; the only panic of the kernel
\* is the bounds fault of record_syscall.
AssertNeverFails ==
    /\ [](pc \in {"rft_move", "rnt_move"} =>
            /\ next_task \in Loaded
            /\ \/ tcbs[next_task].status = "Ready"
               \/ /\ next_task = current_task
                  /\ tcbs[next_task].status = "Running")
    /\ [](pc = "rft_move" => next_task = 0 /\ tcbs[0].status = "Ready")
    /\ [][pc = "rft_move" => pc' = "rft_drop"]_vars
    /\ [][pc = "rnt_move" => pc' = "rnt_drop"]_vars
    /\ [](pc = "panic" => sys_arg \notin Syscalls \cup {NoSyscall})

\* C18 witness: the fallback case has passed the assertion: of two tasks
\* one has exited and the other was picked again while still Running.
AssertNeverFails_Witness ==
    /\ pc = "rnt_drop"
    /\ num_app = 2
    /\ tcbs[0].status = "Exited"
    /\ current_task = 1
    /\ cur_cx = 1
    /\ next_cx = 1
    /\ tcbs[1].status = "Running"

\* C19: the task executing in user mode, in start_task or in the trap
\* handler is the one whose kernel stack is in use: current_task is its index
\* and it is Running (or has just been marked Exited on its way to the
\* scheduler); __switch saves into the slot of the outgoing task and loads
\* the slot of the new current_task, whose saved stack is its own; start_task
\* reads the index of the task it starts, and the image entered on a kernel
\* stack is that of its slot.
ExecutingIsCurrent ==
    /\ pc \in {"start_task", "st_drop", "st_restore", "user", "rs_ret", "rnt_ret"} =>
        /\ ksp = current_task
        /\ tcbs[ksp].status = "Running"
    /\ pc \in {"ex_drop", "run_next_task"} =>
        /\ ksp = current_task
        /\ tcbs[ksp].status \in {"Running", "Exited"}
    /\ pc \in {"user", "rs_ret", "ex_drop", "run_next_task", "rnt_ret"} =>
        app_of[ksp] = ksp
    /\ pc = "start_task" => app_of[ksp] = Unused
    /\ pc \in {"st_drop", "st_restore"} => st_task = ksp
    /\ pc \in {"rnt_drop", "rnt_trigger", "rnt_switch"} =>
        /\ cur_cx = ksp
        /\ next_cx = current_task
    /\ pc \in {"rft_drop", "rft_trigger", "rft_switch"} =>
        /\ cur_cx = Unused
        /\ ksp = BootStack
        /\ next_cx = current_task
    /\ \A i \in Loaded :
        /\ tcbs[i].cx.sp = i
        /\ tcbs[i].cx.ra \in {"start_task", "rnt_ret"}
        /\ i # ksp => (tcbs[i].cx.ra = "start_task" <=> app_of[i] = Unused)
    /\ pc \notin {"wild", "deadlock"}

\* C19 witness: task 0 is back in user mode after task 1 ran and was
\* switched out: its context was saved and loaded again.
ExecutingIsCurrent_Witness ==
    /\ pc = "user"
    /\ num_app = 2
    /\ ksp = 0
    /\ current_task = 0
    /\ tcbs[1].cx.ra = "rnt_ret"
    /\ tcbs[0].cx.ra = "rnt_ret"
    /\ decisions = 2

\* C20: for every task that has been scheduled, cpu_clocks is at most the
\* time since its first scheduling (real_time at the current clock value).
CpuWithinReal ==
    \A i \in Slots :
        stats[i].first_scheduled # None =>
            /\ stats[i].cpu_clocks <= now - unwrap(stats[i].first_scheduled)
            /\ stats[i].cpu_clocks <= real_time(stats[i], now)

\* C20 witness: task 0 has used all of the real time since its first
\* scheduling at 0, in windows around one of task 1 that took no time.
CpuWithinReal_Witness ==
    /\ stats[0].first_scheduled = Some(0)
    /\ stats[0].cpu_clocks = 2
    /\ stats[1].cpu_clocks = 0
    /\ stats[1].first_scheduled # None
    /\ now = 2

-----------------------------------------------------------------------------
(* Termination. The hart never stops executing, so a step that can be taken *)
(* is taken (weak fairness of Next), and every task exits: a task that is   *)
(* in user mode again and again eventually calls exit_and_run_next (strong  *)
(* fairness of the exit).                                                   *)

SpecFair ==
    /\ Init
    /\ [][Next]_vars
    /\ WF_vars(Next)
    /\ SF_vars(ExitAndRunNext_Mark)

\* C17: if every task exits and every Running task goes on to a scheduling
\* decision, the kernel eventually shuts down, unless a task stops it with
\* the bounds fault of an untracked system call; at the shutdown every loaded
\* task is Exited.
Termination ==
    /\ <>(pc = "shutdown" \/ sys_arg \notin Syscalls \cup {NoSyscall})
    /\ [](pc = "shutdown" => \A i \in Loaded : tcbs[i].status = "Exited")
    /\ [](pc = "shutdown" => (num_app = 0 \/ AllExited) /\ RunningSlots = {})

\* C17 witness: two tasks were preempted, made their system calls, exited,
\* and the kernel has shut down.
Termination_Witness ==
    /\ pc = "shutdown"
    /\ num_app = 2
    /\ tcbs[0].status = "Exited"
    /\ tcbs[1].status = "Exited"
    /\ decisions >= 3
    /\ SyscallsMade = MaxSyscalls

====
